---- MODULE Spec2Model ----
(***************************************************************************)
(* Gemini-Finger-Eater: the React application state (App.tsx), the level   *)
(* generator (services/geminiService.ts), the per-frame pointer smoothing  *)
(* and collision pass (GameScene) and the hand tracker's life cycle        *)
(* (components/HandTracker.tsx).                                           *)
(*                                                                         *)
(* React state.  gameStatus, score, cubes and difficulty hold the value of *)
(* each useState cell with every queued update applied (updates are        *)
(* applied in the order they were queued, so the eager value is the value  *)
(* the next render sees).  A function component's closures see the values  *)
(* of the render that created them:                                        *)
(*   rGameStatus, rCubes, rDifficulty  the values of the last render: of   *)
(*                           App (button handlers, the JSX that shows the  *)
(*                           buttons) and, through the props App hands     *)
(*                           down, of GameScene (checkCollisions closes    *)
(*                           over status and cubes);                       *)
(*   tGameStatus             the gameStatus seen by the setGameStatus prop *)
(*                           that HandTracker's mount effect (deps [])     *)
(*                           captured.                                     *)
(*                                                                         *)
(* Units.  World lengths are integers in hundredths of a world unit,       *)
(* normalized hand coordinates in thousandths, Math.random() results are   *)
(* numerators over RandDen, time is in milliseconds.                       *)
(***************************************************************************)
EXTENDS Integers, Sequences, FiniteSets, TLC

VARIABLES
  gameStatus,   \* App.tsx:12  useState<GameStatus>
  score,        \* App.tsx:13
  cubes,        \* App.tsx:16  sequence of Cube records
  difficulty,   \* App.tsx:17
  handPos,      \* App.tsx:15  handPosRef.current, <<x, y>>
  rGameStatus,  \* gameStatus of the last render (GameScene's status prop)
  rCubes,       \* cubes of the last render (GameScene's cubes prop)
  rDifficulty,  \* difficulty of the last render
  tGameStatus,  \* gameStatus captured by HandTracker's mount effect closure
  meshPos,      \* part_000:42 mesh.current.position of FingerCursor, <<x, y, z>>
  tracker,      \* HandTracker init: "unmounted", "loading", "ready", "failed"
  pending,      \* outstanding generateLevel calls: sequence of [level, start]
  now,          \* the last clock value observed (Date.now(), ms)
  emitted,      \* history: ids passed to onCubeEat by the last step
  eatCalls,     \* history: id -> number of onCubeEat calls since the level was built
  consumedPts,  \* history: points of the cubes removed by consumption since the last setScore(0)
  lowered,      \* history: the amount by which the last step lowered score
  eatenIds,     \* history: ids removed by consumption since startLevel last cleared cubes
  ticks         \* history: useFrame ticks counted by SmoothTick

vars == <<gameStatus, score, cubes, difficulty, handPos, rGameStatus, rCubes,
          rDifficulty, tGameStatus, meshPos, tracker,
          pending, now, emitted, eatCalls, consumedPts, lowered, eatenIds,
          ticks>>

appState == <<gameStatus, score, cubes, difficulty>>
appRender == <<rGameStatus, rCubes, rDifficulty>>
history == <<emitted, eatCalls, consumedPts, lowered, eatenIds, ticks>>

----------------------------------------------------------------------------
(* types.ts *)

GameStatus == {"IDLE", "LOADING_MODEL", "PLAYING", "GENERATING_LEVEL", "GAME_OVER"}

----------------------------------------------------------------------------
(* Bounds of the exploration *)

\* Frames stop consuming once the score would pass this value.
MaxScore == 250
\* At most this many generateLevel calls are outstanding.
MaxPending == 2
\* No generation resolves after this clock value.
MaxClock == 700
\* Difficulties the generator is applied to in SpecGen.
MaxGenDifficulty == 3
\* Ticks counted in SpecSmooth.
MaxTicks == 40

----------------------------------------------------------------------------
(* Program constants *)

\* denominators of the fixed-point representations
RandDen == 1200
HandDen == 1000

\* useThree().viewport, in hundredths of a world unit
ViewportWidth == 1600
ViewportHeight == 900

EatThreshold == 80
BaseCount == 5
CountMultiplier == 3
MaxLevel == 10
TimerDelay == 300

NEON_COLORS == <<"#00FFFF", "#FF00FF", "#00FF00", "#FFFF00", "#FF1493", "#00BFFF">>

----------------------------------------------------------------------------
(* Arithmetic helpers *)

Min(a, b) == IF a <= b THEN a ELSE b
Max(a, b) == IF a >= b THEN a ELSE b

\* a / b rounded to the nearest integer (b > 0)
RoundDiv(a, b) == (2 * a + b) \div (2 * b)

\* Math.floor(r * k) for r = n / RandDen
FloorMul(n, k) == (n * k) \div RandDen

\* the k-th value (k >= 0) Math.random() returns, drawn from the cyclic stream rnd
Random(rnd, k) == rnd[(k % Len(rnd)) + 1]

RECURSIVE SumPoints(_)
SumPoints(cs) == IF cs = <<>> THEN 0 ELSE Head(cs).points + SumPoints(Tail(cs))

Ids(cs) == {cs[i].id : i \in DOMAIN cs}

----------------------------------------------------------------------------
(* services/geminiService.ts *)

\* variant: the two factors exchanged
CubeCountSwapped(d) == BaseCount * d + CountMultiplier

CubeCount(d) == BaseCount + d * CountMultiplier

\* the i-th cube (i >= 0) of a level built at clock value stamp
MakeCube(rnd, stamp, i) ==
  [id       |-> <<stamp, i>>,
   position |-> <<RoundDiv(Random(rnd, 4 * i) * 1200, RandDen) - 600,
                  RoundDiv(Random(rnd, 4 * i + 1) * 700, RandDen) - 350,
                  0>>,
   color    |-> NEON_COLORS[FloorMul(Random(rnd, 4 * i + 2), Len(NEON_COLORS)) + 1],
   points   |-> (FloorMul(Random(rnd, 4 * i + 3), 5) + 1) * 10]

generateLevel(d, rnd, stamp) ==
  [k \in 1..CubeCount(d) |-> MakeCube(rnd, stamp, k - 1)]

----------------------------------------------------------------------------
(* Inputs of the exploration *)

\* Streams of Math.random() numerators the generator may draw from.  With a
\* period of 8 draws the cubes of a level alternate between two kinds:
\* one at (0.80, 0) worth 10 and one at (0.81, 0) worth 20.
RandomStreams == { <<680, 600, 0, 0, 681, 600, 600, 240>> }

\* Raw index-fingertip landmarks (x, y) the vision model may report.  The
\* pointer starts at x = 0, at distance 0.80 of the first kind of cube; the
\* second landmark draws it to x = 0.01 (0.79 and 0.80 from the two kinds)
\* and on to x = 0.02 (0.78 and 0.79).
Landmarks == { <<500, 500>>, <<497, 500>> }

\* IEEE NaN: a value outside every coordinate range; arithmetic on it gives
\* NaN and every comparison with it is false
NaN == -1000000

\* landmarks with a NaN coordinate
MalformedLandmarks == { <<NaN, 500>>, <<500, NaN>> }

----------------------------------------------------------------------------
(* part_000 (GameScene): FingerCursor and checkCollisions *)

\* variant: factor 0.02 in place of 0.2
LerpSlow(x, y) ==
  IF x = NaN \/ y = NaN THEN NaN ELSE RoundDiv(98 * x + 2 * y, 100)

\* THREE.MathUtils.lerp(x, y, 0.2) = (1 - 0.2) * x + 0.2 * y
Lerp(x, y) ==
  IF x = NaN \/ y = NaN THEN NaN ELSE RoundDiv(8 * x + 2 * y, 10)

\* normalized hand coordinate -> viewport coordinates
TargetX(h) ==
  IF h[1] = NaN THEN NaN
  ELSE ((h[1] - HandDen \div 2) * ViewportWidth) \div HandDen
TargetY(h) ==
  IF h[2] = NaN THEN NaN
  ELSE 0 - (((h[2] - HandDen \div 2) * ViewportHeight) \div HandDen)

\* the mesh position after one useFrame tick of FingerCursor
Smoothed(pos, h) == <<Lerp(pos[1], TargetX(h)), Lerp(pos[2], TargetY(h)), 0>>

\* Vector3.distanceToSquared
DistanceToSquared(a, b) ==
  IF \E k \in 1..3 : a[k] = NaN \/ b[k] = NaN THEN NaN
  ELSE (a[1] - b[1]) * (a[1] - b[1]) + (a[2] - b[2]) * (a[2] - b[2])
         + (a[3] - b[3]) * (a[3] - b[3])

\* variant: <= in place of <
CollidesInclusive(fingerPos, cube) ==
  /\ DistanceToSquared(fingerPos, cube.position) # NaN
  /\ DistanceToSquared(fingerPos, cube.position) <= EatThreshold * EatThreshold

\* fingerPos.distanceTo(cubePos) < 0.8
Collides(fingerPos, cube) ==
  /\ DistanceToSquared(fingerPos, cube.position) # NaN
  /\ DistanceToSquared(fingerPos, cube.position) < EatThreshold * EatThreshold

\* the cubes checkCollisions passes to onCubeEat, in forEach order
CheckCollisions(status, cs, fingerPos) ==
  IF status # "PLAYING" THEN <<>>
  ELSE SelectSeq(cs, LAMBDA c : Collides(fingerPos, c))

----------------------------------------------------------------------------
(* App.tsx *)

\* handleCubeEat applied once per reported cube: setScore(prev => prev + points)
ScoreAfterEat(s, hits) == s + SumPoints(hits)

\* handleCubeEat applied once per reported cube: setCubes(prev => prev.filter(...))
CubesAfterEat(cs, hits) == SelectSeq(cs, LAMBDA c : c.id \notin Ids(hits))

\* the win-condition effect: TRUE when it calls setGameStatus(GAME_OVER)
WinEffect(status, cs) == status = "PLAYING" /\ Len(cs) = 0

\* the effect's dependency list [cubes.length, gameStatus]
WinDeps(status, cs) == <<Len(cs), status>>

\* the guard of the setGameStatus prop handed to HandTracker
TrackerMaySet(seen) == seen = "IDLE" \/ seen = "LOADING_MODEL"

\* the value of gameStatus after HandTracker calls its setGameStatus(s)
TrackerSetGameStatus(s) == IF TrackerMaySet(tGameStatus) THEN s ELSE gameStatus

\* the early return of startLevel
StartLevelSkips(seen) == seen = "GENERATING_LEVEL"

\* variant: no cap
NextDifficultyUncapped(d) == d + 1

\* nextDiff of handleNextLevel
NextDifficulty(d) == Min(d + 1, MaxLevel)

Remove(seq, i) == [k \in 1..(Len(seq) - 1) |-> IF k < i THEN seq[k] ELSE seq[k + 1]]

NoCalls == [id \in {} |-> 0]

----------------------------------------------------------------------------
(* Initial state: App's first render is committed, no effect has run yet *)

Init ==
  /\ gameStatus = "IDLE"
  /\ score = 0
  /\ cubes = <<>>
  /\ difficulty = 1
  /\ handPos = <<500, 500>>
  /\ rGameStatus = "IDLE"
  /\ rCubes = <<>>
  /\ rDifficulty = 1
  /\ tGameStatus = "IDLE"
  /\ meshPos = <<0, 0, 0>>
  /\ tracker = "unmounted"
  /\ pending = <<>>
  /\ now = 0
  /\ emitted = <<>>
  /\ eatCalls = NoCalls
  /\ consumedPts = 0
  /\ lowered = 0
  /\ eatenIds = {}
  /\ ticks = 0

----------------------------------------------------------------------------
(* HandTracker.tsx *)

\* the mount effect starts initHandLandmarker: setGameStatus(LOADING_MODEL)
MountTracker ==
  /\ tracker = "unmounted"
  /\ tracker' = "loading"
  /\ gameStatus' = TrackerSetGameStatus("LOADING_MODEL")
  /\ emitted' = <<>>
  /\ lowered' = 0
  /\ UNCHANGED ticks
  /\ UNCHANGED eatenIds
  /\ UNCHANGED <<score, cubes, difficulty, handPos, appRender, tGameStatus, meshPos, pending, now, eatCalls, consumedPts>>

\* createFromOptions resolved: setGameStatus(IDLE)
ModelReady ==
  /\ tracker = "loading"
  /\ tracker' = "ready"
  /\ gameStatus' = TrackerSetGameStatus("IDLE")
  /\ emitted' = <<>>
  /\ lowered' = 0
  /\ UNCHANGED ticks
  /\ UNCHANGED eatenIds
  /\ UNCHANGED <<score, cubes, difficulty, handPos, appRender, tGameStatus, meshPos, pending, now, eatCalls, consumedPts>>

\* initialization threw: the catch block only logs
ModelFailed ==
  /\ tracker = "loading"
  /\ tracker' = "failed"
  /\ emitted' = <<>>
  /\ lowered' = 0
  /\ UNCHANGED ticks
  /\ UNCHANGED eatenIds
  /\ UNCHANGED <<appState, handPos, appRender, tGameStatus,
                 meshPos, pending, now, eatCalls, consumedPts>>

\* 1 - x of predictWebcam
FlipX(x) == IF x = NaN THEN NaN ELSE HandDen - x

\* predictWebcam found a hand, its index fingertip one of landmarks:
\* onHandMove(1 - x, y) -> handleHandMove
HandMoveFrom(landmarks) ==
  /\ tracker = "ready"
  /\ \E p \in landmarks : handPos' = <<FlipX(p[1]), p[2]>>
  /\ emitted' = <<>>
  /\ lowered' = 0
  /\ UNCHANGED ticks
  /\ UNCHANGED eatenIds
  /\ UNCHANGED <<appState, appRender, tGameStatus, meshPos,
                 tracker, pending, now, eatCalls, consumedPts>>

HandMove == HandMoveFrom(Landmarks)

----------------------------------------------------------------------------
(* part_000: one animation frame of FingerCursor *)

Frame ==
  LET pos  == Smoothed(meshPos, handPos)
      hits == CheckCollisions(rGameStatus, rCubes, pos)
      gone == SelectSeq(cubes, LAMBDA c : c.id \in Ids(hits))
  IN  /\ ScoreAfterEat(score, hits) <= MaxScore
      /\ meshPos' = pos
      /\ score' = ScoreAfterEat(score, hits)
      /\ cubes' = CubesAfterEat(cubes, hits)
      /\ emitted' = [i \in DOMAIN hits |-> hits[i].id]
      /\ lowered' = 0
      /\ UNCHANGED ticks
      /\ eatenIds' = eatenIds \cup Ids(gone)
      /\ eatCalls' = [id \in DOMAIN eatCalls \cup Ids(hits) |->
                        (IF id \in DOMAIN eatCalls THEN eatCalls[id] ELSE 0)
                          + (IF id \in Ids(hits) THEN 1 ELSE 0)]
      /\ consumedPts' = consumedPts + SumPoints(gone)
      /\ UNCHANGED <<gameStatus, difficulty, handPos, appRender, tGameStatus, tracker, pending, now>>

----------------------------------------------------------------------------
(* React renders *)

\* App (and GameScene below it) re-renders with the queued updates applied;
\* the win-condition effect runs when its dependencies changed
RenderApp ==
  /\ <<gameStatus, cubes, difficulty>> # appRender
  /\ rGameStatus' = gameStatus
  /\ rCubes' = cubes
  /\ rDifficulty' = difficulty
  /\ gameStatus' = IF /\ WinDeps(gameStatus, cubes) # WinDeps(rGameStatus, rCubes)
                      /\ WinEffect(gameStatus, cubes)
                   THEN "GAME_OVER" ELSE gameStatus
  /\ emitted' = <<>>
  /\ lowered' = 0
  /\ UNCHANGED ticks
  /\ UNCHANGED eatenIds
  /\ UNCHANGED <<score, cubes, difficulty, handPos, tGameStatus,
                 meshPos, tracker, pending, now, eatCalls, consumedPts>>

----------------------------------------------------------------------------
(* App.tsx: startLevel and the button handlers *)

\* variant: startLevel without its setCubes([])
StartLevelKeepsCubes(level) ==
  IF StartLevelSkips(rGameStatus)
  THEN UNCHANGED <<gameStatus, cubes, pending, eatenIds>>
  ELSE /\ gameStatus' = "GENERATING_LEVEL"
       /\ cubes' = cubes
       /\ eatenIds' = {}
       /\ pending' = Append(pending, [level |-> level, start |-> now])

\* startLevel up to its await
StartLevel(level) ==
  IF StartLevelSkips(rGameStatus)
  THEN UNCHANGED <<gameStatus, cubes, pending, eatenIds>>
  ELSE /\ gameStatus' = "GENERATING_LEVEL"
       /\ cubes' = <<>>
       /\ eatenIds' = {}
       /\ pending' = Append(pending, [level |-> level, start |-> now])

\* the START GAME button is rendered while App's last render saw IDLE
HandleStartGame ==
  /\ rGameStatus = "IDLE"
  /\ Len(pending) < MaxPending
  /\ score' = 0
  /\ difficulty' = 1
  /\ StartLevel(1)
  /\ consumedPts' = 0
  /\ emitted' = <<>>
  /\ lowered' = score
  /\ UNCHANGED ticks
  /\ UNCHANGED <<handPos, appRender, tGameStatus, meshPos,
                 tracker, now, eatCalls>>

\* variant: handleNextLevel also calls setScore(0)
HandleNextLevelResetsScore ==
  /\ rGameStatus = "GAME_OVER"
  /\ Len(pending) < MaxPending
  /\ score' = 0
  /\ difficulty' = NextDifficulty(rDifficulty)
  /\ StartLevel(NextDifficulty(rDifficulty))
  /\ emitted' = <<>>
  /\ lowered' = score
  /\ UNCHANGED ticks
  /\ UNCHANGED <<handPos, appRender, tGameStatus, meshPos, tracker, now,
                 eatCalls, consumedPts>>

\* the Next Level button is rendered while App's last render saw GAME_OVER
HandleNextLevel ==
  /\ rGameStatus = "GAME_OVER"
  /\ Len(pending) < MaxPending
  /\ difficulty' = NextDifficulty(rDifficulty)
  /\ StartLevel(NextDifficulty(rDifficulty))
  /\ emitted' = <<>>
  /\ lowered' = 0
  /\ UNCHANGED ticks
  /\ UNCHANGED <<score, handPos, appRender, tGameStatus, meshPos,
                 tracker, now, eatCalls, consumedPts>>

\* the Restart button is rendered while App's last render saw GAME_OVER
HandleRestart ==
  /\ rGameStatus = "GAME_OVER"
  /\ Len(pending) < MaxPending
  /\ score' = 0
  /\ difficulty' = 1
  /\ StartLevel(1)
  /\ consumedPts' = 0
  /\ emitted' = <<>>
  /\ lowered' = score
  /\ UNCHANGED ticks
  /\ UNCHANGED <<handPos, appRender, tGameStatus, meshPos,
                 tracker, now, eatCalls>>

\* startLevel after its await: generateLevel resolved, its random draws
\* taken from one of streams
ResolveFrom(streams) ==
  \E i \in DOMAIN pending, rnd \in streams :
    LET stamp == Max(now, pending[i].start + TimerDelay)
    IN  /\ stamp <= MaxClock
        /\ now' = stamp
        /\ cubes' = generateLevel(pending[i].level, rnd, stamp)
        /\ gameStatus' = "PLAYING"
        /\ pending' = Remove(pending, i)
        /\ eatCalls' = NoCalls
        /\ emitted' = <<>>
        /\ lowered' = 0
        /\ UNCHANGED ticks
        /\ UNCHANGED eatenIds
        /\ UNCHANGED <<score, difficulty, handPos, appRender, tGameStatus,
                       meshPos, tracker, consumedPts>>

GenerateResolved == ResolveFrom(RandomStreams)

\* startLevel after its await: generateLevel rejected, the catch block runs
GenerateRejected ==
  \E i \in DOMAIN pending :
    /\ gameStatus' = "IDLE"
    /\ pending' = Remove(pending, i)
    /\ emitted' = <<>>
    /\ lowered' = 0
    /\ UNCHANGED ticks
    /\ UNCHANGED eatenIds
    /\ UNCHANGED <<score, cubes, difficulty, handPos, appRender, tGameStatus, meshPos, tracker, now, eatCalls, consumedPts>>

----------------------------------------------------------------------------

Next ==
  \/ MountTracker
  \/ ModelReady
  \/ ModelFailed
  \/ HandMove
  \/ Frame
  \/ RenderApp
  \/ HandleStartGame
  \/ HandleNextLevel
  \/ HandleRestart
  \/ GenerateResolved
  \/ GenerateRejected

Spec == Init /\ [][Next]_vars

\* What the runtime does without being asked: React runs the mount effect and
\* every render it has scheduled, the animation loop keeps calling useFrame,
\* and every generateLevel promise settles.  Clicks, landmarks and the
\* outcome of the model download are left to the environment.
FairSpec ==
  /\ Spec
  /\ WF_vars(MountTracker)
  /\ WF_vars(RenderApp)
  /\ WF_vars(Frame)
  /\ WF_vars(GenerateResolved \/ GenerateRejected)

----------------------------------------------------------------------------
(* generateLevel on its own: one pending call per difficulty, resolved with
   random draws from a wider set of streams *)

\* every stream of period 4 over the least, a middle and the greatest value
\* Math.random() can return
GenStreams == [1..4 -> {0, 600, 1199}]

InitGen ==
  /\ difficulty \in 1..MaxGenDifficulty
  /\ gameStatus = "GENERATING_LEVEL"
  /\ pending = <<[level |-> difficulty, start |-> 0]>>
  /\ score = 0
  /\ cubes = <<>>
  /\ handPos = <<500, 500>>
  /\ rGameStatus = "GENERATING_LEVEL"
  /\ rCubes = <<>>
  /\ rDifficulty = difficulty
  /\ tGameStatus = "IDLE"
  /\ meshPos = <<0, 0, 0>>
  /\ tracker = "ready"
  /\ now = 0
  /\ emitted = <<>>
  /\ eatCalls = NoCalls
  /\ consumedPts = 0
  /\ lowered = 0
  /\ eatenIds = {}
  /\ ticks = 0

GenerateAny == ResolveFrom(GenStreams)

SpecGen == InitGen /\ [][GenerateAny]_vars

----------------------------------------------------------------------------
(* The collision pass on its own: a level in progress with the cubes placed
   around the threshold circle of the pointer *)

CollideCandidates ==
  << [id |-> <<300, 0>>, position |-> <<79, 0, 0>>,    color |-> "#00FFFF", points |-> 10],
     [id |-> <<300, 1>>, position |-> <<80, 0, 0>>,    color |-> "#FF00FF", points |-> 20],
     [id |-> <<300, 2>>, position |-> <<81, 0, 0>>,    color |-> "#00FF00", points |-> 30],
     [id |-> <<300, 3>>, position |-> <<48, 64, 0>>,   color |-> "#FFFF00", points |-> 40],
     [id |-> <<300, 4>>, position |-> <<48, 63, 0>>,   color |-> "#FF1493", points |-> 50],
     [id |-> <<300, 5>>, position |-> <<-56, -56, 0>>, color |-> "#00BFFF", points |-> 10],
     [id |-> <<300, 6>>, position |-> <<-57, -57, 0>>, color |-> "#00FFFF", points |-> 20] >>

\* every sub-list of the candidates
CollideLayouts ==
  { SelectSeq(CollideCandidates, LAMBDA c : c.id[2] \in S) : S \in SUBSET (0..6) }

\* pointer positions before the frame; the frame moves them a fifth of the
\* way to the hand's target
CollideStarts == { <<0, 0, 0>>, <<5, 0, 0>>, <<0, -5, 0>> }

InitCollide ==
  /\ cubes \in CollideLayouts
  /\ rCubes = cubes
  /\ meshPos \in CollideStarts
  /\ gameStatus = "PLAYING"
  /\ rGameStatus = "PLAYING"
  /\ score = 0
  /\ difficulty = 1
  /\ rDifficulty = 1
  /\ handPos = <<500, 500>>
  /\ tGameStatus = "IDLE"
  /\ tracker = "ready"
  /\ pending = <<>>
  /\ now = 300
  /\ emitted = <<>>
  /\ eatCalls = NoCalls
  /\ consumedPts = 0
  /\ lowered = 0
  /\ eatenIds = {}
  /\ ticks = 0

NextCollide == Frame \/ RenderApp

SpecCollide == InitCollide /\ [][NextCollide]_vars

----------------------------------------------------------------------------
(* The smoothing of FingerCursor on its own: the hand held still, the mesh
   started anywhere in the viewport, no level in progress.  Positions are
   in thousandths of a world unit here, so that the rounding of Lerp
   (a double rounds far finer) stays well below the 0.01 of the claim. *)

\* thousandths per hundredth
SmoothScale == 10

\* the hand at the centre and at two opposite corners of the image
SmoothHands == { <<500, 500>>, <<0, 0>>, <<1000, 1000>> }

\* the mesh at the centre, at two opposite corners of the viewport and
\* exactly 0.01 to the right of the centre
SmoothStarts ==
  { <<0, 0, 0>>, <<8000, -4500, 0>>, <<-8000, 4500, 0>>, <<10, 0, 0>> }

\* targetX, targetY of useFrame in thousandths
SmoothTarget(h) == <<SmoothScale * TargetX(h), SmoothScale * TargetY(h), 0>>

InitSmooth ==
  /\ handPos \in SmoothHands
  /\ meshPos \in SmoothStarts
  /\ gameStatus = "IDLE"
  /\ rGameStatus = "IDLE"
  /\ tGameStatus = "IDLE"
  /\ score = 0
  /\ cubes = <<>>
  /\ rCubes = <<>>
  /\ difficulty = 1
  /\ rDifficulty = 1
  /\ tracker = "ready"
  /\ pending = <<>>
  /\ now = 0
  /\ emitted = <<>>
  /\ eatCalls = NoCalls
  /\ consumedPts = 0
  /\ lowered = 0
  /\ eatenIds = {}
  /\ ticks = 0

\* one useFrame tick of FingerCursor; checkCollisions returns at once, the
\* status prop not being PLAYING
SmoothTick ==
  LET t   == SmoothTarget(handPos)
      pos == <<Lerp(meshPos[1], t[1]), Lerp(meshPos[2], t[2]), 0>>
  IN  /\ ticks < MaxTicks
      /\ CheckCollisions(rGameStatus, rCubes, pos) = <<>>
      /\ meshPos' = pos
      /\ ticks' = ticks + 1
      /\ UNCHANGED <<appState, handPos, appRender, tGameStatus, tracker,
                     pending, now, emitted, eatCalls, consumedPts, lowered,
                     eatenIds>>

SpecSmooth == InitSmooth /\ [][SmoothTick]_vars

----------------------------------------------------------------------------
(* The level buttons on their own: a level of any difficulty has just been
   cleared and rendered, every cube eaten for 10 points; the player clicks
   through the levels without playing them *)

InitLevels ==
  /\ difficulty \in 1..MaxLevel
  /\ rDifficulty = difficulty
  /\ gameStatus = "GAME_OVER"
  /\ rGameStatus = "GAME_OVER"
  /\ tGameStatus = "IDLE"
  /\ score = 10 * CubeCount(difficulty)
  /\ consumedPts = score
  /\ cubes = <<>>
  /\ rCubes = <<>>
  /\ handPos = <<500, 500>>
  /\ meshPos = <<0, 0, 0>>
  /\ tracker = "ready"
  /\ pending = <<>>
  /\ now = 0
  /\ emitted = <<>>
  /\ eatCalls = NoCalls
  /\ lowered = 0
  /\ eatenIds = {}
  /\ ticks = 0

NextLevels ==
  \/ HandleStartGame
  \/ HandleNextLevel
  \/ HandleRestart
  \/ RenderApp
  \/ GenerateResolved
  \/ GenerateRejected

SpecLevels == InitLevels /\ [][NextLevels]_vars

----------------------------------------------------------------------------
(* Malformed landmarks: a level in progress with all the cubes of
   CollideCandidates, the tracker delivering well-formed and malformed
   fingertips *)

InitMalformed == InitCollide /\ cubes = CollideCandidates

HandMoveAny == HandMoveFrom(Landmarks \cup MalformedLandmarks)

NextMalformed == HandMoveAny \/ Frame \/ RenderApp

SpecMalformed == InitMalformed /\ [][NextMalformed]_vars

----------------------------------------------------------------------------
(* Claims *)

\* C1: for every cube id, onCubeEat is called at most once during the
\* lifetime of a level, whatever the sequence of frames.
C1_EatenAtMostOnce == \A id \in DOMAIN eatCalls : eatCalls[id] <= 1

\* C2: a model-ready event changes gameStatus only when the current
\* gameStatus is IDLE or LOADING_MODEL; while it is PLAYING or
\* GENERATING_LEVEL the event never sets it to IDLE.
C2_ModelReadyGuarded ==
  [][(ModelReady /\ gameStatus \notin {"IDLE", "LOADING_MODEL"})
       => gameStatus' = gameStatus]_vars

\* C3: a collision pass that runs while gameStatus is not PLAYING leaves score
\* and cubes unchanged and calls onCubeEat for no cube.
C3_NoEatUnlessPlaying ==
  [][(Frame /\ gameStatus # "PLAYING")
       => (score' = score /\ cubes' = cubes /\ emitted' = <<>>)]_vars

\* C4: whenever cubes becomes empty while gameStatus is PLAYING, gameStatus
\* eventually becomes GAME_OVER, and GAME_OVER is entered only by that
\* transition (from PLAYING with no cube left).
C4_EmptyLeadsToCleared ==
  /\ (gameStatus = "PLAYING" /\ cubes = <<>>) ~> (gameStatus = "GAME_OVER")
  /\ [][(gameStatus # "GAME_OVER" /\ gameStatus' = "GAME_OVER")
          => (gameStatus = "PLAYING" /\ cubes = <<>>)]_vars

\* C5: score equals the sum of the points of the cubes removed from cubes by
\* consumption since the last reset to 0, each removed cube counted once.
C5_ScoreIsSumOfConsumed == score = consumedPts

\* C6 (as stated): score never decreases except that the restart action sets
\* it to 0; no other action lowers it.
C6_OnlyRestartLowersScore ==
  [][score' < score => (score' = 0 /\ HandleRestart)]_vars

\* C6 (amended): score never decreases except that the restart action and
\* the start action set it to 0; no other action lowers it.
C6_OnlyStartOrRestartLowersScore ==
  [][score' < score => (score' = 0 /\ (HandleRestart \/ HandleStartGame))]_vars

\* C6 witness: the start action has just lowered a positive score to 0.
C6_StartLoweredScore ==
  lowered > 0 /\ score = 0 /\ rGameStatus = "IDLE" /\ gameStatus = "GENERATING_LEVEL"

\* C7: when generateLevel rejects, gameStatus becomes IDLE and cubes is empty
\* at that point, and cubes stays empty until a generation resolves.
C7_RejectLeavesNoCubes ==
  /\ [][GenerateRejected => (gameStatus' = "IDLE" /\ cubes' = <<>>)]_vars
  /\ [][(cubes = <<>> /\ cubes' # <<>>) => GenerateResolved]_vars

\* C8: at most one generateLevel call is outstanding at any time.
C8_OneGenerationOutstanding == Len(pending) <= 1

\* C9: generateLevel(d) resolves with exactly 5 + 3 * d cubes, each with
\* x in [-6, 6], y in [-3.5, 3.5], z = 0, a colour of the six-entry palette
\* and points in {10, 20, 30, 40, 50}.
C9_LevelShape ==
  gameStatus = "PLAYING" =>
    /\ Len(cubes) = 5 + 3 * difficulty
    /\ \A i \in DOMAIN cubes :
         /\ cubes[i].position[1] >= -600 /\ cubes[i].position[1] <= 600
         /\ cubes[i].position[2] >= -350 /\ cubes[i].position[2] <= 350
         /\ cubes[i].position[3] = 0
         /\ cubes[i].color \in {"#00FFFF", "#FF00FF", "#00FF00", "#FFFF00",
                                "#FF1493", "#00BFFF"}
         /\ cubes[i].points \in {10, 20, 30, 40, 50}

\* C9 witness: a level of difficulty 2 has resolved with 11 cubes, one of
\* them at the least x and y with the last colour and the most points.
C9_LevelBuilt ==
  /\ gameStatus = "PLAYING" /\ difficulty = 2 /\ Len(cubes) = 11
  /\ \E i \in DOMAIN cubes :
       /\ cubes[i].position = <<-600, -350, 0>>
       /\ cubes[i].color = "#00BFFF"
       /\ cubes[i].points = 50

C12_OnlyListedTransitions ==
  [][( \/ gameStatus' # gameStatus
       \/ GenerateResolved
       \/ GenerateRejected
       \/ (HandleStartGame \/ HandleNextLevel \/ HandleRestart)
            /\ ~StartLevelSkips(rGameStatus)
       \/ (MountTracker \/ ModelReady) /\ TrackerMaySet(tGameStatus) )
     => <<gameStatus, gameStatus'>> \in
          { <<"IDLE", "LOADING_MODEL">>, <<"LOADING_MODEL", "IDLE">>,
            <<"IDLE", "GENERATING_LEVEL">>, <<"GENERATING_LEVEL", "PLAYING">>,
            <<"GENERATING_LEVEL", "IDLE">>, <<"PLAYING", "GAME_OVER">>,
            <<"GAME_OVER", "GENERATING_LEVEL">> }]_vars

\* C13: whenever a generateLevel call is outstanding, gameStatus is
\* GENERATING_LEVEL.
C13_PendingImpliesGenerating == pending # <<>> => gameStatus = "GENERATING_LEVEL"

\* C14: whenever gameStatus is GENERATING_LEVEL cubes is empty, and every
\* step that enters GENERATING_LEVEL leaves cubes empty.
C14_GeneratingImpliesNoCubes ==
  /\ [](gameStatus = "GENERATING_LEVEL" => cubes = <<>>)
  /\ [][(gameStatus # "GENERATING_LEVEL" /\ gameStatus' = "GENERATING_LEVEL")
          => cubes' = <<>>]_vars

\* C14 witness: a start action fired during a level in progress has entered
\* GENERATING_LEVEL and cleared the cubes the last render still shows.
C14_ClearedOnEntry ==
  /\ gameStatus = "GENERATING_LEVEL" /\ cubes = <<>>
  /\ rCubes # <<>> /\ pending # <<>>

\* C15: difficulty is always between 1 and 10; the next-level action sets it
\* to min(displayed difficulty + 1, 10), restart and start set it to 1, and
\* every generateLevel call is made with the value the same action gave to
\* difficulty, so never with a value above 10.
C15_DifficultyClamped ==
  /\ [](/\ difficulty >= 1 /\ difficulty <= 10
        /\ \A i \in DOMAIN pending : pending[i].level >= 1 /\ pending[i].level <= 10)
  /\ [][HandleNextLevel =>
          difficulty' = IF rDifficulty + 1 <= 10 THEN rDifficulty + 1 ELSE 10]_vars
  /\ [][(HandleRestart \/ HandleStartGame) => difficulty' = 1]_vars
  /\ [][Len(pending') > Len(pending) =>
          pending'[Len(pending')].level = difficulty']_vars

\* C15 witness: Next Level was clicked with difficulty 10 displayed; the
\* outstanding generateLevel call was made with 10.
C15_NextLevelAtCap ==
  /\ rGameStatus = "GAME_OVER" /\ rDifficulty = 10
  /\ gameStatus = "GENERATING_LEVEL" /\ difficulty = 10
  /\ Len(pending) = 1 /\ pending[1].level = 10

\* C16: the ids of the cubes in cubes are pairwise distinct, and an id
\* removed by consumption is not in cubes again for the rest of that level,
\* also when two batches are generated at the same clock value.
C16_IdsDistinctAndNotReadded ==
  /\ \A i, j \in DOMAIN cubes : cubes[i].id = cubes[j].id => i = j
  /\ Ids(cubes) \cap eatenIds = {}

\* C17: once the initialization of the hand landmarker has failed it is not
\* retried, gameStatus is LOADING_MODEL and stays so, no generateLevel call
\* is outstanding, and score and cubes keep their initial values.
C17_FailedStaysLoading ==
  /\ [](tracker = "failed" =>
          /\ gameStatus = "LOADING_MODEL"
          /\ pending = <<>>
          /\ score = 0
          /\ cubes = <<>>)
  /\ [][tracker = "failed" => tracker' = "failed"]_vars

\* C18: a landmark update with a NaN coordinate is ignored, so neither the
\* stored fingertip coordinate nor the smoothed pointer position is ever NaN.
C18_NaNIgnored ==
  /\ handPos[1] # NaN /\ handPos[2] # NaN
  /\ meshPos[1] # NaN /\ meshPos[2] # NaN

\* C19: in every step that starts and ends with gameStatus PLAYING, cubes
\* only loses cubes, each of them removed by consumption; no cube is added
\* or replaced.
C19_OnlyShrinksWhilePlaying ==
  [][(gameStatus = "PLAYING" /\ gameStatus' = "PLAYING") =>
       /\ Len(cubes') <= Len(cubes)
       /\ {cubes'[i] : i \in DOMAIN cubes'} \subseteq {cubes[i] : i \in DOMAIN cubes}
       /\ Ids(cubes) \ Ids(cubes') \subseteq eatenIds']_vars

\* C20: every step that enters PLAYING leaves exactly 5 + 3 * difficulty
\* cubes in cubes, for the difficulty current after the step, hence at least
\* 8; and every step that enters GAME_OVER follows at least one consumption
\* in that level.
C20_LevelSizeOnEntry ==
  /\ [][(gameStatus # "PLAYING" /\ gameStatus' = "PLAYING") =>
          /\ Len(cubes') = 5 + 3 * difficulty'
          /\ Len(cubes') >= 8]_vars
  /\ [][(gameStatus # "GAME_OVER" /\ gameStatus' = "GAME_OVER") =>
          eatenIds # {}]_vars

====
